---- MODULE Spec2Model ----
(***************************************************************************)
(* The agent event client transport of kata-containers/agent               *)
(* (protocols/event/client.go): the address parser parse, the per-scheme   *)
(* resolvers parseGrpcVsockAddr / parseGrpcHybridVSockAddr, the bounded    *)
(* retry dialer commonDialer, and the three dialers built on it; and the   *)
(* event server wrapper: StartEventServiceServer and EventServer.Ready.    *)
(*                                                                         *)
(* Strings are sequences of one-character strings.  A uint32 is a pair     *)
(* <<hi, lo>> of 16-bit limbs (value hi * 2^16 + lo), so that the whole    *)
(* range [0, 2^32-1] is representable.                                     *)
(***************************************************************************)
EXTENDS Integers, Sequences, FiniteSets, TLC

\* ------------------------------------------------------------- bounds
\* connections the platform lets one dial call open before connects fail
MaxConns == 2
\* the count of dialFunc invocations saturates here
MaxAttempts == 3
\* concurrent calls of EventServer.Ready by the peer
MaxReady == 2

\* ------------------------------------------------------------ strings
Digits == <<"0", "1", "2", "3", "4", "5", "6", "7", "8", "9">>

IsDigit(c) == \E i \in 1..10 : Digits[i] = c

DigitVal(c) == (CHOOSE i \in 1..10 : Digits[i] = c) - 1

IsLetter(c) ==
    c \in {"a", "b", "c", "d", "e", "f", "g", "h", "i", "j", "k", "l", "m",
           "n", "o", "p", "q", "r", "s", "t", "u", "v", "w", "x", "y", "z"}

\* strings.HasPrefix
HasPrefix(s, p) == Len(s) >= Len(p) /\ SubSeq(s, 1, Len(p)) = p

\* strings.Index for a one-byte separator: 1-based, 0 when absent
Index(s, c) ==
    IF \E i \in 1..Len(s) : s[i] = c
    THEN CHOOSE i \in 1..Len(s) : s[i] = c /\ \A j \in 1..(i - 1) : s[j] # c
    ELSE 0

\* strings.LastIndex for a one-byte separator: 1-based, 0 when absent
LastIndex(s, c) ==
    IF \E i \in 1..Len(s) : s[i] = c
    THEN CHOOSE i \in 1..Len(s) : s[i] = c /\ \A j \in (i + 1)..Len(s) : s[j] # c
    ELSE 0

\* s[i:] and s[:i] of Go, in 1-based positions
From(s, i) == SubSeq(s, i, Len(s))
Upto(s, i) == SubSeq(s, 1, i)

\* strings.Split(s, sep) for a one-byte separator: always at least one field
RECURSIVE Split(_, _)
Split(s, c) ==
    LET i == Index(s, c)
    IN  IF i = 0 THEN <<s>> ELSE <<Upto(s, i - 1)>> \o Split(From(s, i + 1), c)

\* ------------------------------------------------------------- uint32
Limb == 2 ^ 16

U32(hi, lo) == <<hi, lo>>

Zero32 == U32(0, 0)

\* strconv.ParseUint(s, 10, 32): syntax error on an empty string or a
\* non-digit, range error as soon as the accumulated value exceeds 2^32-1
RECURSIVE ParseUintFrom(_, _, _)
ParseUintFrom(s, i, n) ==
    IF i > Len(s) THEN [val |-> n, err |-> "nil"]
    ELSE IF ~IsDigit(s[i]) THEN [val |-> Zero32, err |-> "ErrSyntax"]
    ELSE LET lo2 == n[2] * 10 + DigitVal(s[i])
             hi2 == n[1] * 10 + (lo2 \div Limb)
         IN  IF hi2 >= Limb
             THEN [val |-> U32(Limb - 1, Limb - 1), err |-> "ErrRange"]
             ELSE ParseUintFrom(s, i + 1, U32(hi2, lo2 % Limb))

ParseUint(s) ==
    IF s = <<>> THEN [val |-> Zero32, err |-> "ErrSyntax"]
    ELSE ParseUintFrom(s, 1, Zero32)

\* fmt.Sprintf("%d", n) for a uint32: decimal, no leading zeros
RECURSIVE FormatUint(_)
FormatUint(n) ==
    LET q1  == n[1] \div 10
        mid == (n[1] % 10) * Limb + n[2]
        q   == U32(q1, mid \div 10)
        d   == <<Digits[(mid % 10) + 1]>>
    IN  IF q = Zero32 THEN d ELSE FormatUint(q) \o d

\* ------------------------------------------------------ scheme names
UnixSocketScheme == <<"u", "n", "i", "x">>
VSockSocketScheme == <<"v", "s", "o", "c", "k">>
HybridVSockScheme == <<"h", "v", "s", "o", "c", "k">>

\* ---------------------------------------------------------- url.Parse
\* net/url of the Go library, for addresses over letters, digits and
\* : / . - + _ (no escapes, query, fragment, userinfo or IPv6 literal).
NoURL == [Scheme |-> <<>>, Opaque |-> <<>>, Host |-> <<>>, Path |-> <<>>]

\* url.getscheme: the text before the first ':' when it is letters followed
\* by letters, digits, + - . ; a leading ':' is an error
RECURSIVE getscheme(_, _)
getscheme(rawurl, i) ==
    IF i > Len(rawurl) THEN [scheme |-> <<>>, rest |-> rawurl, err |-> FALSE]
    ELSE LET c == rawurl[i]
         IN  IF IsLetter(c) THEN getscheme(rawurl, i + 1)
             ELSE IF IsDigit(c) \/ c \in {"+", "-", "."}
             THEN IF i = 1
                  THEN [scheme |-> <<>>, rest |-> rawurl, err |-> FALSE]
                  ELSE getscheme(rawurl, i + 1)
             ELSE IF c = ":"
             THEN IF i = 1
                  THEN [scheme |-> <<>>, rest |-> <<>>, err |-> TRUE]
                  ELSE [scheme |-> Upto(rawurl, i - 1),
                        rest |-> From(rawurl, i + 1), err |-> FALSE]
             ELSE [scheme |-> <<>>, rest |-> rawurl, err |-> FALSE]

\* url.validOptionalPort: "" or ":" followed by digits only
validOptionalPort(port) ==
    port = <<>> \/ (port[1] = ":" /\ \A i \in 2..Len(port) : IsDigit(port[i]))

\* url.parseHost: a host whose text after the last ':' is not digits is refused
hostOK(host) ==
    LET i == LastIndex(host, ":")
    IN  i = 0 \/ validOptionalPort(From(host, i))

\* url.splitHostPort, as used by URL.Hostname and URL.Port
splitHostPort(hostPort) ==
    LET colon == LastIndex(hostPort, ":")
    IN  IF colon # 0 /\ validOptionalPort(From(hostPort, colon))
        THEN [host |-> Upto(hostPort, colon - 1), port |-> From(hostPort, colon + 1)]
        ELSE [host |-> hostPort, port |-> <<>>]

Hostname(u) == splitHostPort(u.Host).host

Port(u) == splitHostPort(u.Host).port

\* url.Parse: scheme, then either an opaque rest (scheme and no leading '/'),
\* or an optional //authority followed by the path
urlParse(rawurl) ==
    LET gs == getscheme(rawurl, 1)
        rest == gs.rest
        colon == Index(rest, ":")
        slash == Index(rest, "/")
        hasAuth == (gs.scheme # <<>> \/ ~HasPrefix(rest, <<"/", "/", "/">>))
                   /\ HasPrefix(rest, <<"/", "/">>)
        after == From(rest, 3)
        cut == Index(after, "/")
        authority == IF cut = 0 THEN after ELSE Upto(after, cut - 1)
        path == IF ~hasAuth THEN rest
                ELSE IF cut = 0 THEN <<>> ELSE From(after, cut)
    IN  IF gs.err THEN [err |-> "urlError", url |-> NoURL]
        ELSE IF ~HasPrefix(rest, <<"/">>) /\ gs.scheme # <<>>
        THEN [err |-> "nil",
              url |-> [NoURL EXCEPT !.Scheme = gs.scheme, !.Opaque = rest]]
        ELSE IF ~HasPrefix(rest, <<"/">>) /\ colon > 0 /\ (slash = 0 \/ colon < slash)
        THEN [err |-> "urlError", url |-> NoURL]
        ELSE IF hasAuth /\ ~hostOK(authority)
        THEN [err |-> "urlError", url |-> NoURL]
        ELSE [err |-> "nil",
              url |-> [Scheme |-> gs.scheme, Opaque |-> <<>>,
                       Host |-> IF hasAuth THEN authority ELSE <<>>,
                       Path |-> path]]

\* -------------------------------------------------------------- parse
\* (variant) a failing parse clears the package variable
ParseFailClearsPort(code, hvp) ==
    [grpcAddr |-> <<>>, addr |-> NoURL, err |-> code, hybridVSockPort |-> Zero32]

ParseFail(code, hvp) ==
    [grpcAddr |-> <<>>, addr |-> NoURL, err |-> code, hybridVSockPort |-> hvp]

\* the vsock case of parse: host and port mandatory, no path, both uint32
parseVSock(addr, hvp) ==
    IF Hostname(addr) = <<>> \/ Port(addr) = <<>> \/ addr.Path # <<>>
    THEN ParseFail("InvalidArgument", hvp)
    ELSE IF ParseUint(Hostname(addr)).err # "nil"
    THEN ParseFail("InvalidArgument", hvp)
    ELSE IF ParseUint(Port(addr)).err # "nil"
    THEN ParseFail("InvalidArgument", hvp)
    ELSE [grpcAddr |-> VSockSocketScheme \o <<":">> \o addr.Host,
          addr |-> addr, err |-> "nil", hybridVSockPort |-> hvp]

\* (variant) the unix case without its port check
unixInvalidNoPort(addr) == addr.Host = <<>> /\ addr.Path = <<>>

\* the condition under which the unix case refuses the address
unixInvalid(addr) ==
    (addr.Host = <<>> /\ addr.Path = <<>>) \/ Port(addr) # <<>>

\* the unix and no-scheme case of parse
parseUnix(addr, hvp) ==
    IF unixInvalid(addr)
    THEN ParseFail("InvalidArgument", hvp)
    ELSE [grpcAddr |->
              IF addr.Host = <<>>
              THEN UnixSocketScheme \o <<":", "/", "/", "/">> \o addr.Path
              ELSE UnixSocketScheme \o <<":", "/", "/", "/">> \o addr.Host
                       \o <<"/">> \o addr.Path,
          addr |-> addr, err |-> "nil", hybridVSockPort |-> hvp]

\* the hvsock case of parse: path "<uds>:<port>", and the port is stored in
\* the package variable hybridVSockPort
parseHybrid(addr, hvp) ==
    LET hvsocket == Split(addr.Path, ":")
    IN  IF addr.Path = <<>> THEN ParseFail("InvalidArgument", hvp)
        ELSE IF Len(hvsocket) # 2 THEN ParseFail("InvalidArgument", hvp)
        ELSE IF ParseUint(hvsocket[2]).err # "nil"
        THEN ParseFail("InvalidArgument", hvp)
        ELSE [grpcAddr |-> HybridVSockScheme \o <<":">> \o hvsocket[1],
              addr |-> addr, err |-> "nil",
              hybridVSockPort |-> ParseUint(hvsocket[2]).val]

\* parse(sock): the dial string, the parsed URL, the error, and the value
\* hybridVSockPort has afterwards (hvp is its value before)
parse(sock, hvp) ==
    LET r == urlParse(sock)
        addr == r.url
    IN  IF r.err # "nil" THEN ParseFail(r.err, hvp)
        ELSE IF addr.Scheme = VSockSocketScheme THEN parseVSock(addr, hvp)
        ELSE IF addr.Scheme = UnixSocketScheme \/ addr.Scheme = <<>>
        THEN parseUnix(addr, hvp)
        ELSE IF addr.Scheme = HybridVSockScheme THEN parseHybrid(addr, hvp)
        ELSE ParseFail("InvalidArgument", hvp)

\* eventDialer: the dialer chosen from the parsed URL's scheme
eventDialer(addr) ==
    IF addr.Scheme = VSockSocketScheme THEN "vsockDialer"
    ELSE IF addr.Scheme = HybridVSockScheme THEN "HybridVSockDialer"
    ELSE "unixDialer"

\* ---------------------------------------------------------- resolvers
\* (variant) parseGrpcVsockAddr reading the port from the cid field
parseGrpcVsockAddrSameField(sock) ==
    LET sp == Split(sock, ":")
    IN  IF Len(sp) # 3 \/ sp[1] # VSockSocketScheme
           \/ ParseUint(sp[2]).err # "nil" \/ ParseUint(sp[3]).err # "nil"
        THEN [cid |-> Zero32, port |-> Zero32, err |-> "InvalidArgument"]
        ELSE [cid |-> ParseUint(sp[2]).val, port |-> ParseUint(sp[2]).val,
              err |-> "nil"]

\* parseGrpcVsockAddr: exactly "vsock:<cid>:<port>"
parseGrpcVsockAddr(sock) ==
    LET sp == Split(sock, ":")
    IN  IF Len(sp) # 3 THEN [cid |-> Zero32, port |-> Zero32, err |-> "InvalidArgument"]
        ELSE IF sp[1] # VSockSocketScheme
        THEN [cid |-> Zero32, port |-> Zero32, err |-> "InvalidArgument"]
        ELSE IF ParseUint(sp[2]).err # "nil"
        THEN [cid |-> Zero32, port |-> Zero32, err |-> "InvalidArgument"]
        ELSE IF ParseUint(sp[3]).err # "nil"
        THEN [cid |-> Zero32, port |-> Zero32, err |-> "InvalidArgument"]
        ELSE [cid |-> ParseUint(sp[2]).val, port |-> ParseUint(sp[3]).val,
              err |-> "nil"]

\* parseGrpcHybridVSockAddr: "hvsock:<path>[:<port>]", port 0 when absent
\* or unparsable
parseGrpcHybridVSockAddr(sock) ==
    LET sp == Split(sock, ":")
    IN  IF Len(sp) < 2 THEN [udsPath |-> <<>>, port |-> Zero32, err |-> "InvalidArgument"]
        ELSE IF sp[1] # HybridVSockScheme
        THEN [udsPath |-> <<>>, port |-> Zero32, err |-> "InvalidArgument"]
        ELSE [udsPath |-> sp[2],
              port |-> IF Len(sp) = 3 /\ ParseUint(sp[3]).err = "nil"
                       THEN ParseUint(sp[3]).val ELSE Zero32,
              err |-> "nil"]

\* strings.Trim(s, cutset): cutset bytes removed from both ends
RECURSIVE TrimLeft(_, _)
TrimLeft(s, cutset) ==
    IF s # <<>> /\ s[1] \in cutset THEN TrimLeft(Tail(s), cutset) ELSE s

RECURSIVE TrimRight(_, _)
TrimRight(s, cutset) ==
    IF s # <<>> /\ s[Len(s)] \in cutset
    THEN TrimRight(Upto(s, Len(s) - 1), cutset) ELSE s

Trim(s, cutset) == TrimRight(TrimLeft(s, cutset), cutset)

\* the socket path unixDialer dials
unixPath(sock) ==
    IF HasPrefix(sock, UnixSocketScheme \o <<":">>)
    THEN Trim(sock, {"u", "n", "i", "x", ":"})
    ELSE sock

NoResolve ==
    [done |-> FALSE, err |-> "nil", cid |-> Zero32, port |-> Zero32, path |-> <<>>]

\* the first statements of the dialer d on the dial string: what it resolves
\* the string to, or the error it returns at once
resolve(d, grpcAddr) ==
    IF d = "vsockDialer"
    THEN LET r == parseGrpcVsockAddr(grpcAddr)
         IN  [done |-> TRUE, err |-> r.err, cid |-> r.cid, port |-> r.port,
              path |-> <<>>]
    ELSE IF d = "HybridVSockDialer"
    THEN LET r == parseGrpcHybridVSockAddr(grpcAddr)
         IN  [done |-> TRUE, err |-> r.err, cid |-> Zero32, port |-> r.port,
              path |-> r.udsPath]
    ELSE [done |-> TRUE, err |-> "nil", cid |-> Zero32, port |-> Zero32,
          path |-> unixPath(grpcAddr)]

\* the control line HybridVSockDialer writes: fmt.Sprintf("CONNECT %d\n", port)
ConnectLine(p) ==
    <<"C", "O", "N", "N", "E", "C", "T", " ">> \o FormatUint(p) \o <<"\n">>

\* ------------------------------------------------------------- inputs
Sep == <<":", "/", "/">>

U32Samples == {U32(0, 0), U32(0, 3), U32(0, 1024), U32(1, 0), U32(Limb - 1, Limb - 1)}

VSockURL(cid, port) ==
    VSockSocketScheme \o Sep \o FormatUint(cid) \o <<":">> \o FormatUint(port)

HybridURL(host, path, port) ==
    HybridVSockScheme \o Sep \o host \o path \o <<":">> \o FormatUint(port)

VSockInputs == {VSockURL(c, p) : c \in U32Samples, p \in U32Samples}

UnixInputs ==
    {pre \o auth \o path :
        pre \in {UnixSocketScheme \o <<":">>, <<>>},
        auth \in {<<>>, <<"/", "/">>, <<"/", "/", "h">>,
                  <<"/", "/", "h", ":", "8", "0">>},
        path \in {<<>>, <<"/", "p">>, <<"/", "p", "/", "q">>, <<"/", "p", "/", "x">>}}
    \cup {<<"p">>, <<"p", "/", "q">>}

HybridInputs ==
    {HybridURL(h, <<"/", "p">>, p) :
        h \in {<<>>, <<"h">>}, p \in {U32(0, 0), U32(0, 5), U32(Limb - 1, Limb - 1)}}
    \cup {HybridVSockScheme \o Sep \o <<"p", ":", "9", "9", "9", "9">>,
          HybridVSockScheme \o Sep \o <<"/", "p">>,
          HybridVSockScheme \o Sep \o <<"/", "p", ":", "1", ":", "2">>,
          HybridVSockScheme \o Sep \o <<"/", "p", ":", "x">>,
          HybridVSockScheme \o Sep
              \o <<"/", "p", ":", "4", "2", "9", "4", "9", "6", "7", "2", "9", "6">>}

BadInputs ==
    {VSockSocketScheme \o Sep \o <<":", "1", "0", "2", "4">>,
     VSockSocketScheme \o Sep \o <<"3", ":">>,
     VSockSocketScheme \o Sep \o <<"3", ":", "1", "/", "p">>,
     VSockSocketScheme \o Sep \o <<"3", ":", "4", "2", "9", "4", "9", "6", "7", "2", "9", "6">>,
     VSockSocketScheme \o Sep \o <<"4", "2", "9", "4", "9", "6", "7", "2", "9", "6", ":", "1">>,
     VSockSocketScheme \o Sep \o <<"x", ":", "1">>,
     VSockSocketScheme \o Sep \o <<"3", ":", "x">>,
     <<"t", "c", "p">> \o Sep \o <<"h", ":", "1">>,
     <<":", "/", "p">>,
     UnixSocketScheme \o Sep \o <<"h", ":", "x">>}

\* every address the parser is exercised on
RawInputs == VSockInputs \cup UnixInputs \cup HybridInputs \cup BadInputs

\* the addresses of the client whose dial is followed
DialInputs ==
    {UnixSocketScheme \o Sep \o <<"/", "p">>,
     VSockURL(U32(0, 3), U32(0, 1024)),
     HybridURL(<<>>, <<"/", "p">>, U32(0, 5)),
     HybridURL(<<>>, <<"/", "p">>, U32(0, 0)),
     VSockSocketScheme \o Sep \o <<"3", ":">>}

\* the addresses other clients of the process parse meanwhile
OtherInputs ==
    {HybridURL(<<>>, <<"/", "q">>, U32(0, 7)),
     HybridURL(<<>>, <<"/", "q">>, U32(0, 0))}

\* -------------------------------------------------------------- state
VARIABLES
    platform,         \* "linux", or "other" where vsock is not implemented
    sock,             \* the address given to NewEventClient
    hybridVSockPort,  \* the package variable written by parse
    parseOut,         \* what parse(sock) returned
    resolved,         \* what the dialer resolved the dial string to
    callerPc,         \* NewEventClient / the goroutine calling commonDialer
    ret,              \* what the dialer returned: [conn, err]
    timer,            \* t: "none", "running", "fired", "stopped"
    tC,               \* a value is waiting in t.C
    workerPc,         \* the goroutine started by commonDialer
    conns,            \* the connections opened, in order
    cur,              \* the connection dialFunc is working on (0: none)
    port,             \* the port variable captured by HybridVSockDialer's dialFunc
    attempts,         \* invocations of dialFunc so far (saturating)
    lastErr,          \* the error of the last failed invocation
    dialed,           \* the successful return of dialFunc, if any
    exitBy,           \* how the worker ended
    handed,           \* the connections the caller received from ch
    srvPc,            \* StartEventServiceServer: "start", "listening", "returned", "panicked"
    lis,              \* the listener: "none", "open", "closed"
    lisAddr,          \* lis.Addr().String()
    srvRet,           \* what StartEventServiceServer returned
    readyPc,          \* each call of EventServer.Ready: "idle", "send", "returned"
    ownerPc,          \* the owning process: "busy", or "recv" (blocked in <-server.Event)
    received          \* values the owning process received from server.Event

clientVars ==
    <<platform, sock, hybridVSockPort, parseOut, resolved, callerPc, ret, timer,
      tC, workerPc, conns, cur, port, attempts, lastErr, dialed, exitBy, handed>>

serverVars == <<srvPc, lis, lisAddr, srvRet, readyPc, ownerPc, received>>

vars == <<clientVars, serverVars>>

dialVars ==
    <<ret, timer, tC, workerPc, conns, cur, port, attempts, lastErr, dialed, exitBy,
      handed>>

NoParse == [done |-> FALSE, grpcAddr |-> <<>>, addr |-> NoURL, err |-> "nil"]

NoDialed == [conn |-> 0, late |-> FALSE, nth |-> 0]

NoRet == [conn |-> 0, err |-> "nil"]

\* (nil, nil): what StartEventServiceServer's results are before it returns
NoServer == [server |-> FALSE, Port |-> Zero32, err |-> "nil"]

dialer == eventDialer(parseOut.addr)

InitWith(inputs, ports) ==
    /\ platform \in {"linux", "other"}
    /\ sock \in inputs
    /\ hybridVSockPort \in ports
    /\ parseOut = NoParse
    /\ resolved = NoResolve
    /\ callerPc = "start"
    /\ ret = NoRet
    /\ timer = "none"
    /\ tC = FALSE
    /\ workerPc = "none"
    /\ conns = <<>>
    /\ cur = 0
    /\ port = Zero32
    /\ attempts = 0
    /\ lastErr = "nil"
    /\ dialed = NoDialed
    /\ exitBy = "none"
    /\ handed = {}
    /\ srvPc = "start"
    /\ lis = "none"
    /\ lisAddr = <<>>
    /\ srvRet = NoServer
    /\ readyPc = [i \in 1..MaxReady |-> "idle"]
    /\ ownerPc = "busy"
    /\ received = 0

Init == InitWith(DialInputs, {Zero32})

\* the package variable may hold the port of an earlier client's address
InitParse == InitWith(RawInputs, {Zero32, U32(0, 7)})

\* ------------------------------------------------- NewEventClient, parse
\* NewEventClient calls parse(sock) and returns its error, if any
ParseStep ==
    /\ callerPc = "start"
    /\ LET r == parse(sock, hybridVSockPort)
       IN  /\ parseOut' = [done |-> TRUE, grpcAddr |-> r.grpcAddr, addr |-> r.addr,
                           err |-> r.err]
           /\ hybridVSockPort' = r.hybridVSockPort
           /\ callerPc' = IF r.err = "nil" THEN "parsed" ELSE "failed"
           /\ ret' = [conn |-> 0, err |-> r.err]
    /\ UNCHANGED <<platform, sock, resolved, timer, tC, workerPc, conns, cur, port,
                   attempts, lastErr, dialed, exitBy, handed>>
    /\ UNCHANGED serverVars

\* another client of the process calls parse(raw): only the package variable
\* is shared with the client followed here
OtherParse(raw) ==
    /\ hybridVSockPort' = parse(raw, hybridVSockPort).hybridVSockPort
    /\ hybridVSockPort' # hybridVSockPort
    /\ UNCHANGED <<platform, sock, parseOut, resolved, callerPc>>
    /\ UNCHANGED dialVars
    /\ UNCHANGED serverVars

\* the dialer applied to the dial string, up to its call of commonDialer: it
\* resolves the string and returns at once when that fails
ResolveStep ==
    /\ callerPc = "parsed"
    /\ LET r == resolve(dialer, parseOut.grpcAddr)
       IN  /\ resolved' = r
           /\ port' = r.port
           /\ callerPc' = IF r.err = "nil" THEN "resolved" ELSE "failed"
           /\ ret' = [conn |-> 0, err |-> r.err]
    /\ UNCHANGED <<platform, sock, hybridVSockPort, parseOut, timer, tC, workerPc,
                   conns, cur, attempts, lastErr, dialed, exitBy, handed>>
    /\ UNCHANGED serverVars

\* ------------------------------------------------------- commonDialer
\* t := time.NewTimer(timeout); the channels are made; the worker is started
CommonDialerStart ==
    /\ callerPc = "resolved"
    /\ timer' = "running"
    /\ workerPc' = "check"
    /\ callerPc' = "select"
    /\ UNCHANGED <<platform, sock, hybridVSockPort, parseOut, resolved, ret, tC,
                   conns, cur, port, attempts, lastErr, dialed, exitBy, handed>>
    /\ UNCHANGED serverVars

\* the runtime fires the timer: a value is put in t.C
TimerFire ==
    /\ timer = "running"
    /\ timer' = "fired"
    /\ tC' = TRUE
    /\ UNCHANGED <<platform, sock, hybridVSockPort, parseOut, resolved, callerPc, ret,
                   workerPc, conns, cur, port, attempts, lastErr, dialed, exitBy, handed>>
    /\ UNCHANGED serverVars

\* the caller's select takes <-t.C and goes on to `cancel <- true`
CallerTimeout ==
    /\ callerPc = "select"
    /\ tC
    /\ tC' = FALSE
    /\ callerPc' = "cancel"
    /\ UNCHANGED <<platform, sock, hybridVSockPort, parseOut, resolved, ret, timer,
                   workerPc, conns, cur, port, attempts, lastErr, dialed, exitBy, handed>>
    /\ UNCHANGED serverVars

\* (variant) the worker could also be cancelled while blocked inside dialFunc
atSelectOrBlocked == workerPc \in {"check", "hung"}

\* the worker is at its select on cancel, between two invocations of dialFunc
atSelect == workerPc = "check"

\* (variant) the worker's select never finds the case <-cancel ready
selectCancelNever == FALSE

\* the case <-cancel of the worker's select is ready: the caller is sending
selectCancel == callerPc = "cancel"

\* (variant) the caller returns the error of the last failed invocation
timeoutResultLastErr == [conn |-> 0, err |-> lastErr]

\* what the caller returns when it blocked in `cancel <- true` and was received
timeoutResult == [conn |-> 0, err |-> "DeadlineExceeded"]

\* (variant) the worker goes round its loop again after receiving from cancel
afterCancelLoops == "check"

\* where the worker goes after receiving from cancel: it returns
afterCancel == "done"

\* cancel is unbuffered: the caller's send and the worker's receive are one
\* step; the worker returns, the caller returns (nil, timeoutErrMsg)
CancelRendezvous ==
    /\ callerPc = "cancel"
    /\ atSelect
    /\ selectCancel
    /\ workerPc' = afterCancel
    /\ exitBy' = "cancel"
    /\ callerPc' = "returned"
    /\ ret' = timeoutResult
    /\ UNCHANGED <<platform, sock, hybridVSockPort, parseOut, resolved, timer, tC,
                   conns, cur, port, attempts, lastErr, dialed, handed>>
    /\ UNCHANGED serverVars

\* the worker's select finds no sender on cancel, takes default and invokes
\* dialFunc
WorkerCheck ==
    /\ workerPc = "check"
    /\ ~selectCancel
    /\ workerPc' = "dial"
    /\ attempts' = IF attempts < MaxAttempts THEN attempts + 1 ELSE attempts
    /\ UNCHANGED <<platform, sock, hybridVSockPort, parseOut, resolved, callerPc, ret,
                   timer, tC, conns, cur, port, lastErr, dialed, exitBy, handed>>
    /\ UNCHANGED serverVars

\* (variant) the worker gives up on the platform's permanent error
afterFailurePermanent(err) == IF err = "unimplemented" THEN "done" ELSE "check"

\* where the worker goes after an invocation of dialFunc that returned err
afterFailure(err) == "check"

\* the errors the connect call of dialer d can return here
connectErrors(d) ==
    IF d = "vsockDialer" /\ platform = "other" THEN {"unimplemented"} ELSE {"connect"}

\* the connect call of dialer d can succeed here
canConnect(d) ==
    /\ ~(d = "vsockDialer" /\ platform = "other")
    /\ Len(conns) < MaxConns

\* the connect call may never return: vsock.Dial carries no timeout, while
\* net.DialTimeout does
canHang(d) == d = "vsockDialer" /\ platform = "linux"

NewConn ==
    [open |-> TRUE, closedBy |-> "none", tried |-> <<>>, line |-> <<>>,
     written |-> "none", acked |-> FALSE, readFailed |-> FALSE]

\* the connect call (net.DialTimeout, vsock.Dial) returns an error, and so
\* does dialFunc
DialFail ==
    /\ workerPc = "dial"
    /\ \E e \in connectErrors(dialer) :
          /\ lastErr' = e
          /\ workerPc' = afterFailure(e)
    /\ UNCHANGED <<platform, sock, hybridVSockPort, parseOut, resolved, callerPc, ret,
                   timer, tC, conns, cur, port, attempts, dialed, exitBy, handed>>
    /\ UNCHANGED serverVars

\* the connect call returns a connection: unixDialer and vsockDialer return it
\* from dialFunc, HybridVSockDialer goes on to the handshake
DialOK ==
    /\ workerPc = "dial"
    /\ canConnect(dialer)
    /\ conns' = Append(conns, NewConn)
    /\ cur' = Len(conns) + 1
    /\ IF dialer = "HybridVSockDialer"
       THEN /\ workerPc' = "port"
            /\ UNCHANGED dialed
       ELSE /\ workerPc' = "result"
            /\ dialed' = [conn |-> Len(conns) + 1, late |-> timer = "fired",
                          nth |-> attempts]
    /\ UNCHANGED <<platform, sock, hybridVSockPort, parseOut, resolved, callerPc, ret,
                   timer, tC, port, attempts, lastErr, exitBy, handed>>
    /\ UNCHANGED serverVars

\* the connect call never returns
DialHang ==
    /\ workerPc = "dial"
    /\ canHang(dialer)
    /\ workerPc' = "hung"
    /\ UNCHANGED <<platform, sock, hybridVSockPort, parseOut, resolved, callerPc, ret,
                   timer, tC, conns, cur, port, attempts, lastErr, dialed, exitBy, handed>>
    /\ UNCHANGED serverVars

\* (variant) the package variable is read again in every invocation
usedPortAlwaysGlobal == hybridVSockPort

\* the port dialFunc uses: the captured variable, replaced by the package
\* variable when it is 0
usedPort == IF port = Zero32 THEN hybridVSockPort ELSE port

\* HybridVSockDialer's dialFunc, the port fallback: the captured variable port
\* is assigned the package variable when it is 0, and kept otherwise
HybridPort ==
    /\ workerPc = "port"
    /\ port' = usedPort
    /\ workerPc' = "write"
    /\ UNCHANGED <<platform, sock, hybridVSockPort, parseOut, resolved, callerPc, ret,
                   timer, tC, conns, cur, attempts, lastErr, dialed, exitBy, handed>>
    /\ UNCHANGED serverVars

\* (variant) the failed write leaves the connection open
writeFailedConnLeftOpen(c) == [c EXCEPT !.written = "failed"]

\* what dialFunc does with the connection when conn.Write failed: it closes it
writeFailedConn(c) == [c EXCEPT !.open = FALSE, !.closedBy = "dialFunc", !.written = "failed"]

\* HybridVSockDialer's dialFunc, conn.Write of the control line made from
\* port: the line is written, or the write fails and the connection is closed
\* and an error returned, or the write blocks for ever
HybridWrite ==
    /\ workerPc = "write"
    /\ \/ /\ conns' = [conns EXCEPT ![cur].tried = ConnectLine(port),
                                     ![cur].line = ConnectLine(port),
                                     ![cur].written = "ok"]
          /\ workerPc' = "read"
          /\ UNCHANGED <<cur, lastErr>>
       \/ /\ conns' = [conns EXCEPT
                          ![cur] = writeFailedConn([conns[cur] EXCEPT
                                                      !.tried = ConnectLine(port)])]
          /\ lastErr' = "write"
          /\ workerPc' = afterFailure("write")
          /\ cur' = 0
       \/ /\ workerPc' = "hung"
          /\ UNCHANGED <<conns, cur, lastErr>>
    /\ UNCHANGED <<platform, sock, hybridVSockPort, parseOut, resolved, callerPc, ret,
                   timer, tC, port, attempts, dialed, exitBy, handed>>
    /\ UNCHANGED serverVars

\* what dialFunc does with the connection when conn.Read failed: it closes it
readFailedConn(c) == [c EXCEPT !.open = FALSE, !.closedBy = "dialFunc", !.readFailed = TRUE]

\* HybridVSockDialer's dialFunc, conn.Read of the acknowledgement: it
\* succeeds, or fails (the connection is closed), or blocks for ever; in the
\* first two cases dialFunc returns (conn, nil)
HybridRead ==
    /\ workerPc = "read"
    /\ \/ /\ workerPc' = "result"
          /\ dialed' = [conn |-> cur, late |-> timer = "fired", nth |-> attempts]
          /\ conns' = [conns EXCEPT ![cur].acked = TRUE]
       \/ /\ conns' = [conns EXCEPT ![cur] = readFailedConn(conns[cur])]
          /\ workerPc' = "result"
          /\ dialed' = [conn |-> cur, late |-> timer = "fired", nth |-> attempts]
       \/ /\ workerPc' = "hung"
          /\ UNCHANGED <<conns, dialed>>
    /\ UNCHANGED <<platform, sock, hybridVSockPort, parseOut, resolved, callerPc, ret,
                   timer, tC, cur, port, attempts, lastErr, exitBy, handed>>
    /\ UNCHANGED serverVars

\* (variant) the result of t.Stop() is ignored and the connection always sent
StopIgnored == TRUE

\* t.Stop(): true when the call stops the timer, false when it has fired
Stop == timer = "running"

\* (variant) the worker leaves a late connection as it is
lateConnLeftOpen(c) == c

\* what the worker does with a connection that came after the timer fired: it
\* closes it
lateConn(c) ==
    [c EXCEPT !.open = FALSE,
              !.closedBy = IF c.closedBy = "none" THEN "worker" ELSE c.closedBy]

\* dialFunc returned a connection: the worker calls t.Stop() and either goes
\* on to send the connection on ch, or closes it and returns
WorkerStop ==
    /\ workerPc = "result"
    /\ IF Stop
       THEN /\ timer' = IF timer = "running" THEN "stopped" ELSE timer
            /\ workerPc' = "send"
            /\ UNCHANGED <<conns, exitBy>>
       ELSE /\ conns' = [conns EXCEPT ![cur] = lateConn(conns[cur])]
            /\ workerPc' = "done"
            /\ exitBy' = "closed"
            /\ UNCHANGED timer
    /\ UNCHANGED <<platform, sock, hybridVSockPort, parseOut, resolved, callerPc, ret,
                   tC, cur, port, attempts, lastErr, dialed, handed>>
    /\ UNCHANGED serverVars

\* (variant) the caller takes every receive from ch for a closed channel
chResultNotOk(c) == [conn |-> 0, err |-> "DeadlineExceeded"]

\* what the caller returns after receiving c from ch
chResult(c) == [conn |-> c, err |-> "nil"]

\* ch is unbuffered: the worker's `ch <- conn` and the caller's receive in its
\* select are one step; the worker returns, the caller returns (conn, nil)
Handoff ==
    /\ workerPc = "send"
    /\ callerPc = "select"
    /\ workerPc' = "done"
    /\ exitBy' = "sent"
    /\ callerPc' = "returned"
    /\ ret' = chResult(cur)
    /\ handed' = handed \cup {cur}
    /\ UNCHANGED <<platform, sock, hybridVSockPort, parseOut, resolved, timer, tC,
                   conns, cur, port, attempts, lastErr, dialed>>
    /\ UNCHANGED serverVars

\* -------------------------------------------- StartEventServiceServer
\* the host part of a listener address, as vsock prints it
HostPart == <<"h", "o", "s", "t", "(", "2", ")">>

\* lis.Addr().String() of a listener bound to port p
ListenAddr(p) == HostPart \o <<":">> \o FormatUint(p)

\* the address strings StartEventServiceServer guards against: a bound port,
\* port 0, a port field that is not a number, a third field, no ':' at all
ListenAddrs ==
    {ListenAddr(p) : p \in U32Samples \cup {U32(0, 1)}}
    \cup {HostPart \o <<":", "x">>, HostPart \o <<":", "1", ":", "2">>, HostPart}

\* strconv.Atoi of an unsigned decimal field that fits the 64-bit int: the
\* value, or 0 and an error
Atoi(s) ==
    LET r == ParseUint(s)
    IN  IF r.err = "nil" THEN r ELSE [val |-> Zero32, err |-> r.err]

\* the error vsock.Listen fails with
listenError == IF platform = "other" THEN "unimplemented" ELSE "listen"

\* vsock.Listen(0) returns a listener
ListenOK ==
    /\ srvPc = "start"
    /\ platform = "linux"
    /\ \E a \in ListenAddrs : lisAddr' = a
    /\ lis' = "open"
    /\ srvPc' = "listening"
    /\ UNCHANGED <<srvRet, readyPc, ownerPc, received>>
    /\ UNCHANGED clientVars

\* vsock.Listen(0) fails: StartEventServiceServer returns (nil, err)
ListenFail ==
    /\ srvPc = "start"
    /\ srvRet' = [server |-> FALSE, Port |-> Zero32, err |-> listenError]
    /\ srvPc' = "returned"
    /\ UNCHANGED <<lis, lisAddr, readyPc, ownerPc, received>>
    /\ UNCHANGED clientVars

\* StartEventServiceServer after a successful Listen: the address is split,
\* vals[1] is converted (a panic when there is no such field), and either the
\* listener is closed and (nil, err) returned with the err of Atoi, or the
\* server is built on the port and returned
ServerCheck ==
    /\ srvPc = "listening"
    /\ LET vals == Split(lisAddr, ":")
       IN  IF Len(vals) < 2
           THEN /\ srvPc' = "panicked"
                /\ UNCHANGED <<lis, srvRet>>
           ELSE LET a == Atoi(vals[2])
                IN  /\ srvPc' = "returned"
                    /\ IF Len(vals) # 2 \/ a.val = Zero32
                       THEN /\ lis' = "closed"
                            /\ srvRet' = [server |-> FALSE, Port |-> Zero32,
                                          err |-> a.err]
                       ELSE /\ lis' = "open"
                            /\ srvRet' = [server |-> TRUE, Port |-> a.val,
                                          err |-> "nil"]
    /\ UNCHANGED <<lisAddr, readyPc, ownerPc, received>>
    /\ UNCHANGED clientVars

\* ---------------------------------------------------- EventServer.Ready
\* the peer calls Ready on the served EventServer: the handler reaches its
\* send on s.Event
ReadyCall(i) ==
    /\ srvPc = "returned"
    /\ srvRet.server
    /\ readyPc[i] = "idle"
    /\ readyPc' = [readyPc EXCEPT ![i] = "send"]
    /\ UNCHANGED <<srvPc, lis, lisAddr, srvRet, ownerPc, received>>
    /\ UNCHANGED clientVars

\* the owning process starts a receive from server.Event
OwnerReceive ==
    /\ srvPc = "returned"
    /\ srvRet.server
    /\ ownerPc = "busy"
    /\ ownerPc' = "recv"
    /\ UNCHANGED <<srvPc, lis, lisAddr, srvRet, readyPc, received>>
    /\ UNCHANGED clientVars

\* (variant) Event has room for a value: a send never waits for a receiver
sendReadyBuffered == TRUE

\* Event is made without capacity: a send can proceed only when a receiver
\* is blocked on the channel
sendReady == ownerPc = "recv"

\* `s.Event <- "Ready"` proceeds: the receiver gets the value and Ready
\* returns
EventSend(i) ==
    /\ readyPc[i] = "send"
    /\ sendReady
    /\ readyPc' = [readyPc EXCEPT ![i] = "returned"]
    /\ received' = IF ownerPc = "recv" THEN received + 1 ELSE received
    /\ ownerPc' = "busy"
    /\ UNCHANGED <<srvPc, lis, lisAddr, srvRet>>
    /\ UNCHANGED clientVars

\* ------------------------------------------------------ specifications
\* the steps of the goroutine that called commonDialer
Caller == CommonDialerStart \/ CallerTimeout

Worker ==
    \/ WorkerCheck
    \/ DialFail
    \/ DialOK
    \/ DialHang
    \/ HybridPort
    \/ HybridWrite
    \/ HybridRead
    \/ WorkerStop

Next ==
    \/ ParseStep
    \/ \E raw \in OtherInputs : OtherParse(raw)
    \/ ResolveStep
    \/ CommonDialerStart
    \/ TimerFire
    \/ CallerTimeout
    \/ CancelRendezvous
    \/ WorkerCheck
    \/ DialFail
    \/ DialOK
    \/ DialHang
    \/ HybridPort
    \/ HybridWrite
    \/ HybridRead
    \/ WorkerStop
    \/ Handoff

Spec == Init /\ [][Next]_vars

\* inside commonDialer every goroutine that can take a step eventually takes
\* one, and a running timer eventually fires
FairSpec ==
    /\ Init
    /\ [][Next]_vars
    /\ WF_vars(Caller)
    /\ WF_vars(Worker)
    /\ WF_vars(TimerFire)
    /\ WF_vars(CancelRendezvous)
    /\ WF_vars(Handoff)

\* the parser and the resolvers alone, on every address of RawInputs
NextParse == ParseStep \/ ResolveStep

SpecParse == InitParse /\ [][NextParse]_vars

\* the event server alone: its start, the peer's Ready calls and the owner
InitServer == InitWith({UnixSocketScheme \o Sep \o <<"/", "p">>}, {Zero32})

NextServer ==
    \/ ListenOK
    \/ ListenFail
    \/ ServerCheck
    \/ \E i \in 1..MaxReady : ReadyCall(i)
    \/ OwnerReceive
    \/ \E i \in 1..MaxReady : EventSend(i)

SpecServer == InitServer /\ [][NextServer]_vars

\* ------------------------------------------------------------- claims
\* dialFunc returned a connection, and the timer had fired by then
LateSuccess == dialed.conn # 0 /\ dialed.late

\* C1: when the first successful return of dialFunc comes after the timer
\* fired, the connection is closed by the dialer and commonDialer does
\* return, with DeadlineExceeded and no connection.
C1_LateSuccessReturnsDeadline ==
    LateSuccess ~>
        (callerPc = "returned" /\ ret = timeoutResult /\ LateSuccess
            /\ ~conns[dialed.conn].open)

\* a late connection is closed by the worker and never returned (the part of
\* C1 the code does satisfy)
C1_LateSuccessClosedNotReturned ==
    LateSuccess =>
        /\ ret.conn = 0
        /\ workerPc = "done" => ~conns[dialed.conn].open /\ callerPc # "returned"

C1_Witness ==
    LateSuccess /\ workerPc = "done" /\ callerPc = "cancel" /\ ~conns[dialed.conn].open

\* no invocation of dialFunc has returned a connection or blocked for ever
AllFailed == dialed.conn = 0 /\ workerPc # "hung"

\* C2: when every invocation of dialFunc returns an error, commonDialer
\* eventually returns (nil, timeoutErr) and the worker terminates; it does
\* not return before the timer has fired.
C2_AlwaysFailingTimesOut ==
    /\ [](callerPc = "returned" /\ dialed.conn = 0
            => timer = "fired" /\ ret = timeoutResult /\ workerPc = "done")
    /\ (callerPc = "select") ~>
           (~AllFailed \/ (callerPc = "returned" /\ ret = timeoutResult
                            /\ workerPc = "done"))

C2_Witness ==
    /\ callerPc = "returned"
    /\ ret = timeoutResult
    /\ AllFailed
    /\ attempts >= 2
    /\ workerPc = "done"

\* C3: at most one connection is handed to the caller, and a connection
\* dialFunc produced after the timer fired is never handed over: the worker
\* closes it.
C3_AtMostOneNeverLate ==
    /\ Cardinality(handed) <= 1
    /\ \A c \in handed : c = dialed.conn /\ ~dialed.late /\ ret.conn = c
    /\ ret.conn # 0 => ret.conn \in handed
    /\ LateSuccess => handed = {} /\ workerPc # "send"
    /\ LateSuccess /\ workerPc = "done" => ~conns[dialed.conn].open /\ exitBy = "closed"

C3_Witness ==
    /\ LateSuccess
    /\ workerPc = "done"
    /\ conns[dialed.conn].closedBy = "worker"
    /\ handed = {}

\* C4 as stated: dialFunc succeeded while the timer had not fired, so
\* commonDialer returns exactly that connection with a nil error and never
\* closes it.
C4_SuccessBeforeFireReturned ==
    dialed.conn # 0 /\ ~dialed.late /\ workerPc = "done"
        => /\ ret = [conn |-> dialed.conn, err |-> "nil"]
           /\ conns[dialed.conn].closedBy # "worker"

\* t.Stop() returned true for the connection dialFunc produced
StoppedInTime == workerPc = "send" \/ exitBy = "sent"

\* C4 amended: when the timer has still not fired at the worker's t.Stop()
\* after the successful invocation, the caller is still in its select, it
\* returns exactly that connection with a nil error, and commonDialer never
\* closes it.
C4_StoppedInTimeReturned ==
    StoppedInTime =>
        /\ dialed.conn # 0 /\ ~dialed.late
        /\ timer = "stopped" /\ ~tC
        /\ conns[dialed.conn].closedBy # "worker"
        /\ workerPc = "send" => callerPc = "select"
        /\ exitBy = "sent" =>
              callerPc = "returned" /\ ret = [conn |-> dialed.conn, err |-> "nil"]

C4_Witness ==
    /\ exitBy = "sent"
    /\ dialed.nth = 2
    /\ lastErr # "nil"
    /\ callerPc = "returned"
    /\ ret.conn = dialed.conn
    /\ conns[dialed.conn].open

\* C5: a connection whose acknowledgement read failed is closed, and the
\* attempt fails: dialFunc does not return that connection and the caller
\* never gets it.
C5_ReadFailureFailsAttempt ==
    \A i \in 1..Len(conns) :
        conns[i].readFailed =>
            ~conns[i].open /\ dialed.conn # i /\ ret.conn # i /\ i \notin handed

C5_Witness ==
    \E i \in 1..Len(conns) :
        conns[i].readFailed /\ ~conns[i].open /\ ret = [conn |-> i, err |-> "nil"]

\* the port of the hybrid address the followed client parsed
ParsedPort == parse(sock, Zero32).hybridVSockPort

\* C6: every CONNECT line written by the dial on the string parse produced
\* carries the port of the address parsed.
C6_ConnectCarriesParsedPort ==
    parseOut.done /\ parseOut.err = "nil" /\ dialer = "HybridVSockDialer"
        => \A i \in 1..Len(conns) :
               conns[i].line # <<>> => conns[i].line = ConnectLine(ParsedPort)

C6_Witness ==
    /\ dialer = "HybridVSockDialer"
    /\ resolved.done /\ resolved.port = Zero32
    /\ \E i \in 1..Len(conns) :
          conns[i].line # <<>> /\ conns[i].line # ConnectLine(ParsedPort)

\* the vsock dial of the followed client on a platform without VM sockets
UnimplementedDial ==
    parseOut.done /\ parseOut.err = "nil" /\ dialer = "vsockDialer" /\ platform = "other"

\* C7 as stated: the 'not implemented' error is permanent: the connect
\* operation is not invoked again and the caller gets that error, not
\* DeadlineExceeded.
C7_UnimplementedNotRetried ==
    UnimplementedDial /\ lastErr = "unimplemented"
        => attempts <= 1 /\ ret.err # "DeadlineExceeded"

\* C7 amended: the 'not implemented' error is handled like any failed
\* attempt: it is never returned, the worker goes back to its loop and ends
\* only by the caller's cancellation, and the caller gets DeadlineExceeded
\* after the timer fired.
C7_UnimplementedRetriedUntilDeadline ==
    UnimplementedDial =>
        /\ ret.err \in {"nil", "DeadlineExceeded"}
        /\ conns = <<>>
        /\ lastErr \in {"nil", "unimplemented"}
        /\ workerPc \in {"none", "check", "dial", "done"}
        /\ workerPc = "done" => exitBy = "cancel" /\ callerPc = "returned"
        /\ callerPc = "returned" => ret = timeoutResult /\ timer = "fired"

C7_Witness ==
    /\ UnimplementedDial
    /\ lastErr = "unimplemented"
    /\ attempts >= 2
    /\ callerPc = "returned"
    /\ ret = timeoutResult

\* C8: once an invocation of dialFunc never returns, the worker never
\* terminates and commonDialer never returns: after the timer fired the
\* caller stays blocked in its send on cancel.
C8_HungAttemptBlocksCaller ==
    /\ [](workerPc = "hung"
            => /\ callerPc \in {"select", "cancel"}
               /\ ret = NoRet
               /\ timer = "fired" /\ ~tC => callerPc = "cancel")
    /\ [][workerPc = "hung" => workerPc' = "hung" /\ callerPc' # "returned"]_vars

C8_Witness == workerPc = "hung" /\ callerPc = "cancel" /\ timer = "fired"

\* C9: parse of "vsock://cid:port" succeeds and parseGrpcVsockAddr of the
\* dial string it returns gives back exactly (cid, port).
C9_VSockRoundTrip ==
    \A c \in U32Samples, p \in U32Samples :
        sock = VSockURL(c, p) =>
            /\ parseOut.done => parseOut.err = "nil"
            /\ resolved.done =>
                  resolved.err = "nil" /\ resolved.cid = c /\ resolved.port = p

C9_Witness ==
    /\ sock = VSockURL(U32(Limb - 1, Limb - 1), U32(0, 1024))
    /\ resolved.done
    /\ resolved.cid = U32(Limb - 1, Limb - 1)
    /\ resolved.port = U32(0, 1024)

\* the URL of an address url.Parse accepts with scheme unix or no scheme
UnixURL == urlParse(sock).url

UnixScoped ==
    /\ parseOut.done
    /\ urlParse(sock).err = "nil"
    /\ UnixURL.Scheme \in {UnixSocketScheme, <<>>}

\* C10 as stated: a unix or scheme-less address is accepted only when exactly
\* one of host and path is non-empty and there is no port; otherwise it is
\* refused with InvalidArgument.
C10_UnixExactlyOne ==
    UnixScoped =>
        /\ parseOut.err = "nil" <=>
              /\ (UnixURL.Host # <<>>) # (UnixURL.Path # <<>>)
              /\ Port(UnixURL) = <<>>
        /\ parseOut.err \in {"nil", "InvalidArgument"}

\* C10 amended: such an address is accepted exactly when at least one of host
\* and path is non-empty and there is no port (host and path may both be
\* given); otherwise it is refused with InvalidArgument.
C10_UnixAtLeastOne ==
    UnixScoped =>
        /\ parseOut.err = "nil" <=>
              /\ (UnixURL.Host # <<>> \/ UnixURL.Path # <<>>)
              /\ Port(UnixURL) = <<>>
        /\ parseOut.err \in {"nil", "InvalidArgument"}

C10_Witness ==
    /\ UnixScoped
    /\ parseOut.err = "nil"
    /\ UnixURL.Host # <<>>
    /\ UnixURL.Path # <<>>

\* s without one leading occurrence of the token p
StripLeadingToken(s, p) == IF HasPrefix(s, p) THEN From(s, Len(p) + 1) ELSE s

\* C11: the path unixDialer dials is the dial string with one leading
\* "unix:" token removed when it starts with it, and the dial string itself
\* otherwise; every other character, trailing ones included, is kept.
C11_UnixPathStripsOneToken ==
    resolved.done /\ dialer = "unixDialer"
        => resolved.path = StripLeadingToken(parseOut.grpcAddr, UnixSocketScheme \o <<":">>)

C11_Witness ==
    /\ resolved.done
    /\ dialer = "unixDialer"
    /\ sock = UnixSocketScheme \o Sep \o <<"/", "p", "/", "x">>
    /\ resolved.path = <<"/", "/", "/", "/", "p", "/">>

\* C12: every failure of parse is reported with code InvalidArgument, and
\* then no dial string is returned.
C12_ParseFailsInvalidArgument ==
    parseOut.done /\ parseOut.err # "nil"
        => parseOut.err = "InvalidArgument" /\ parseOut.grpcAddr = <<>>

C12_Witness ==
    /\ parseOut.done
    /\ sock = VSockSocketScheme \o Sep \o <<"3", ":", "x">>
    /\ parseOut.err = "urlError"
    /\ callerPc = "failed"

\* C13: a connection on which the write of the control line failed is
\* closed by dialFunc, carries no control line, is never read from, is not
\* returned by dialFunc nor handed to the caller; the invocation returns the
\* write error and the worker goes back to its loop, where it may connect
\* afresh.
C13_WriteFailureFailsAttempt ==
    /\ [](\A i \in 1..Len(conns) :
            conns[i].written = "failed" =>
                /\ ~conns[i].open /\ conns[i].closedBy = "dialFunc"
                /\ conns[i].line = <<>>
                /\ ~conns[i].acked /\ ~conns[i].readFailed
                /\ cur # i /\ dialed.conn # i /\ ret.conn # i /\ i \notin handed)
    /\ [][workerPc = "write" /\ conns'[cur].written = "failed"
            => workerPc' = "check" /\ lastErr' = "write" /\ dialed' = dialed]_vars

C13_Witness ==
    /\ Len(conns) = 2
    /\ conns[1].written = "failed" /\ ~conns[1].open
    /\ conns[2].written = "ok" /\ conns[2].acked /\ conns[2].open
    /\ ret = [conn |-> 2, err |-> "nil"]

\* the errors an invocation of dialFunc can return
AttemptErrors == {"connect", "unimplemented", "write"}

\* C14: whenever commonDialer returns, it returns either (a connection, nil)
\* or (nil, timeoutErr); the error of an invocation of dialFunc is never
\* returned to the caller, however many invocations failed.
C14_OnlyConnOrTimeoutErr ==
    /\ callerPc \in {"select", "cancel", "returned"} => ret.err \notin AttemptErrors
    /\ callerPc = "returned" =>
          \/ ret.conn \in 1..Len(conns) /\ ret.err = "nil"
          \/ ret = [conn |-> 0, err |-> "DeadlineExceeded"]

C14_Witness ==
    /\ callerPc = "returned"
    /\ ret = [conn |-> 0, err |-> "DeadlineExceeded"]
    /\ lastErr = "write"
    /\ attempts >= 2

\* the followed client's hybrid dial, on a dial string without a port
HybridDialNoPort ==
    resolved.done /\ dialer = "HybridVSockDialer" /\ resolved.port = Zero32

\* C15 as stated: at the moment a CONNECT line is written, the port in it is
\* the current value of hybridVSockPort, under any interleaving of parse
\* calls with the attempts of the dial.
C15_ConnectCarriesCurrentGlobal ==
    [][HybridDialNoPort =>
          \A i \in 1..Len(conns) :
              conns[i].tried = <<>> /\ conns'[i].tried # <<>>
                  => conns'[i].tried = ConnectLine(hybridVSockPort)]_vars

\* C15 amended: an invocation of dialFunc whose captured port is still 0
\* takes the value hybridVSockPort has at its port fallback; once that value
\* is non-zero the dial keeps it: no later parse call changes it, and every
\* CONNECT line carries the captured port (0 for lines written before).
C15_PortLatchedAtFirstNonZeroRead ==
    /\ [](HybridDialNoPort =>
            \A i \in 1..Len(conns) :
                conns[i].tried \in {<<>>, ConnectLine(port), ConnectLine(Zero32)})
    /\ [][HybridDialNoPort /\ port # Zero32 => port' = port]_vars
    /\ [][HybridDialNoPort /\ port' # port
            => workerPc = "port" /\ port' = hybridVSockPort]_vars
    /\ [][HybridDialNoPort =>
            \A i \in 1..Len(conns) :
                conns[i].tried = <<>> /\ conns'[i].tried # <<>>
                    => conns'[i].tried = ConnectLine(port)]_vars

C15_Witness ==
    /\ HybridDialNoPort
    /\ Len(conns) = 2
    /\ port # Zero32
    /\ hybridVSockPort # port
    /\ conns[1].written = "failed" /\ conns[1].tried = ConnectLine(port)
    /\ conns[2].tried = ConnectLine(port)

\* the calls of Ready that have passed their send
PassedSend == {i \in 1..MaxReady : readyPc[i] = "returned"}

\* C16: a call of Ready returns only in a step in which the owning process,
\* blocked in its receive, gets the value; the values received are as many as
\* the calls that passed their send; while no receiver is waiting a call
\* blocked in its send does not return.
C16_ReadyIsRendezvous ==
    /\ [](received = Cardinality(PassedSend))
    /\ [][\A i \in 1..MaxReady :
              readyPc[i] # "returned" /\ readyPc'[i] = "returned"
                  => ownerPc = "recv" /\ received' = received + 1]_vars
    /\ [][\A i \in 1..MaxReady :
              readyPc[i] = "send" /\ ownerPc # "recv" => readyPc'[i] # "returned"]_vars

C16_Witness ==
    /\ received = 1
    /\ Cardinality(PassedSend) = 1
    /\ \E i \in 1..MaxReady : readyPc[i] = "send"
    /\ ownerPc = "busy"

\* C17: a call of commonDialer starts one worker, once, and when
\* commonDialer has returned that worker has terminated: it starts no further
\* invocation of dialFunc.
C17_WorkerEndsWithCall ==
    /\ [](callerPc = "returned" => workerPc = "done" /\ exitBy \in {"sent", "cancel"})
    /\ [](callerPc \in {"start", "parsed", "resolved", "failed"} => workerPc = "none")
    /\ [][workerPc = "none" /\ workerPc' # "none"
            => callerPc = "resolved" /\ callerPc' = "select" /\ workerPc' = "check"]_vars
    /\ [][workerPc # "none" => workerPc' # "none"]_vars
    /\ [][callerPc = "returned"
            => workerPc' = "done" /\ attempts' = attempts /\ conns' = conns]_vars

C17_Witness ==
    /\ callerPc = "returned"
    /\ workerPc = "done"
    /\ exitBy = "cancel"
    /\ attempts = MaxAttempts
    /\ Len(conns) = 1

\* C18: a connection returned by dialFunc is either received by the caller
\* or closed by the worker's conn.Close(), not both, and in the end one of
\* the two; when the worker is at its send on ch the caller is in its select
\* and it is that connection the caller receives.
C18_HandedXorClosed ==
    /\ [](dialed.conn # 0 /\ workerPc = "done"
            => /\ (dialed.conn \in handed) # (exitBy = "closed")
               /\ exitBy = "closed" => ~conns[dialed.conn].open
               /\ dialed.conn \in handed
                     => conns[dialed.conn].closedBy # "worker" /\ ret.conn = dialed.conn)
    /\ [](workerPc = "send" => callerPc = "select" /\ ~tC /\ cur = dialed.conn)
    /\ [](dialed.conn = 0 => handed = {} /\ exitBy \notin {"sent", "closed"})
    /\ (dialed.conn # 0) ~> (workerPc = "done")

C18_Witness ==
    /\ dialed.conn = 2
    /\ workerPc = "done"
    /\ exitBy = "closed"
    /\ handed = {}
    /\ ~conns[2].open
    /\ conns[1].written = "failed"

\* C19: a call of parse that fails, or that is given a unix, bare-path or
\* vsock address, leaves hybridVSockPort as it was; a successful parse of a
\* hybrid address stores that address's port in it.
C19_ParseFrameOnPort ==
    [][callerPc = "start" /\ callerPc' # "start" =>
          /\ parseOut'.err # "nil" => hybridVSockPort' = hybridVSockPort
          /\ parseOut'.err = "nil" /\ parseOut'.addr.Scheme # HybridVSockScheme
                => hybridVSockPort' = hybridVSockPort
          /\ parseOut'.err = "nil" /\ parseOut'.addr.Scheme = HybridVSockScheme
                => \E h \in {<<>>, <<"h">>}, p \in U32Samples \cup {U32(0, 5)} :
                       /\ sock = HybridURL(h, <<"/", "p">>, p)
                       /\ hybridVSockPort' = p]_vars

C19_Witness ==
    /\ parseOut.done
    /\ sock = HybridVSockScheme \o Sep \o <<"/", "p", ":", "x">>
    /\ parseOut.err = "InvalidArgument"
    /\ hybridVSockPort = U32(0, 7)

\* C20: whenever StartEventServiceServer returns, exactly one of the server
\* and the error is non-nil; a returned server has the non-zero port the
\* listener is bound to; without a server the listener is closed or was
\* never opened.
C20_ServerXorError ==
    srvPc = "returned" =>
        /\ srvRet.server # (srvRet.err # "nil")
        /\ srvRet.server =>
              srvRet.Port # Zero32 /\ lisAddr = ListenAddr(srvRet.Port) /\ lis = "open"
        /\ ~srvRet.server => lis \in {"none", "closed"}

C20_Witness ==
    /\ srvPc = "returned"
    /\ lisAddr = ListenAddr(Zero32)
    /\ lis = "closed"
    /\ srvRet = NoServer

====
